---- MODULE Spec2Model ----
(***************************************************************************)
(* Model of src/main.py: a FastAPI application with two routes on "/".     *)
(*                                                                         *)
(*   app = FastAPI()                      (line 4)                         *)
(*   @app.get("/")  def read_root()       (lines 7-9)                      *)
(*   @app.post("/") def create_root()     (lines 11-13)                    *)
(*                                                                         *)
(* The program's state is the application's route table (app.router.routes)*)
(* and the requests in flight.  A request travels through the stages       *)
(*   idle -> accepted -> routed -> returned -> responded -> idle           *)
(* where "routed"/"returned" are only visited when an application handler  *)
(* (read_root, create_root) serves the request: the handlers are plain     *)
(* `def` functions, so the framework runs them on a worker thread and      *)
(* requests on different connections interleave at these steps.            *)
(*                                                                         *)
(* A request's body stays attached to it until the request is dispatched;  *)
(* nothing reads it afterwards.  A response is the status and the body the *)
(* application produces (for HEAD the server sends the headers only).      *)
(*                                                                         *)
(* A path is a sequence of tokens: the separator "/", the line feed "\n",  *)
(* and runs of ordinary characters ("docs", "other").                      *)
(***************************************************************************)
EXTENDS Integers, Sequences, FiniteSets, TLC

VARIABLES routes, conn

vars == <<routes, conn>>

\* Number of connections served at once.
MaxInFlight == 2

Conns == 1..MaxInFlight

\* Request inputs.  DELETE stands for every method that no route names
\* (DELETE, PUT, PATCH, OPTIONS, ... are treated alike by the dispatch).
Methods == {"GET", "POST", "HEAD", "DELETE"}

Root == <<"/">>

Paths == {Root, <<"/", "\n">>, <<"/", "other">>, <<"/", "docs">>, <<"/", "docs", "/">>}

\* Request bodies: none, or bytes that are not JSON.
Payloads == {"", "{bad"}

\* ------------------------------------------------------------------------
\* The handlers (src/main.py lines 7-13).  A Python dict is an ordered
\* sequence of key/value pairs.

\* Variants of the handlers with a defect, each detected by one property
\* below.
read_root_post ==
  <<<<"method", "POST">>, <<"message", "Hello from POST!">>>>

read_root ==
  <<<<"method", "GET">>, <<"message", "Hello from GET!">>>>

create_root_get ==
  <<<<"method", "GET">>, <<"message", "Hello from GET!">>>>

\* The payload is taken from whatever response was produced last.
create_root_stale ==
  IF \E c \in Conns : conn[c].stage = "responded" /\ conn[c].method = "GET"
  THEN <<<<"method", "GET">>, <<"message", "Hello from GET!">>>>
  ELSE <<<<"method", "POST">>, <<"message", "Hello from POST!">>>>

create_root ==
  <<<<"method", "POST">>, <<"message", "Hello from POST!">>>>

\* Variant: the two handlers are bound to each other's route.
CallEndpoint_swapped(name) ==
  IF name = "read_root" THEN create_root ELSE read_root

\* Calling an endpoint by name.
CallEndpoint(name) ==
  IF name = "read_root" THEN read_root ELSE create_root

\* ------------------------------------------------------------------------
\* Route registration (lines 4, 7, 11).

\* A route: a path pattern, the methods it serves, its endpoint, and
\* whether the endpoint is an application handler (an APIRoute).
Route(path, methods, endpoint, api) ==
  [path |-> path, methods |-> methods, endpoint |-> endpoint, api |-> api]

\* app = FastAPI(): with no arguments the constructor's defaults
\* openapi_url="/openapi.json", docs_url="/docs", redoc_url="/redoc" and
\* swagger_ui_oauth2_redirect_url="/docs/oauth2-redirect" are in force, and
\* the constructor registers one plain route for each.  A plain route
\* registered without methods serves GET, and HEAD along with it.
FastAPI ==
  << Route(<<"/", "openapi.json">>, {"GET", "HEAD"}, "openapi", FALSE),
     Route(<<"/", "docs">>, {"GET", "HEAD"}, "swagger_ui_html", FALSE),
     Route(<<"/", "docs", "/", "oauth2-redirect">>, {"GET", "HEAD"},
           "swagger_ui_redirect", FALSE),
     Route(<<"/", "redoc">>, {"GET", "HEAD"}, "redoc_html", FALSE) >>

\* Variant: the route also serves HEAD.
app_get_with_head(rs, path, endpoint) ==
  Append(rs, Route(path, {"GET", "HEAD"}, endpoint, TRUE))

\* @app.get(path): appends an APIRoute serving exactly GET (no HEAD).
app_get(rs, path, endpoint) ==
  Append(rs, Route(path, {"GET"}, endpoint, TRUE))

\* Variant: the route also serves DELETE.
app_post_also_delete(rs, path, endpoint) ==
  Append(rs, Route(path, {"POST", "DELETE"}, endpoint, TRUE))

\* Variant: the route is registered on another path.
app_post_any_path(rs, path, endpoint) ==
  Append(rs, Route(<<"/", "other">>, {"POST"}, endpoint, TRUE))

\* @app.post(path): appends an APIRoute serving exactly POST.
app_post(rs, path, endpoint) ==
  Append(rs, Route(path, {"POST"}, endpoint, TRUE))

\* The route table once the module has been imported.
AppRoutes ==
  app_post(app_get(FastAPI, Root, "read_root"), Root, "create_root")

\* ------------------------------------------------------------------------
\* Dispatch: what the application object of line 4 does with a request.

\* A route's pattern for a parameterless path is "^" + path + "$"; in Python
\* "$" also matches just before a line feed that ends the string.
PathMatches(route, path) ==
  \/ path = route.path
  \/ path = route.path \o <<"\n">>

\* A route matches fully when its path and method match, partially when
\* only its path does.
RouteMatch(route, method, path) ==
  IF ~PathMatches(route, path) THEN "NONE"
  ELSE IF method \in route.methods THEN "FULL"
  ELSE "PARTIAL"

FullMatches(rs, method, path) ==
  {i \in 1..Len(rs) : RouteMatch(rs[i], method, path) = "FULL"}

PartialMatches(rs, method, path) ==
  {i \in 1..Len(rs) : RouteMatch(rs[i], method, path) = "PARTIAL"}

First(S) == CHOOSE i \in S : \A j \in S : i <= j

\* path.rstrip("/")
RECURSIVE rstrip_slash(_)
rstrip_slash(path) ==
  IF path # <<>> /\ path[Len(path)] = "/"
  THEN rstrip_slash(SubSeq(path, 1, Len(path) - 1))
  ELSE path

\* redirect_slashes: the path with its trailing slashes removed, or with one
\* added, is tried against the routes (whatever the method).
RedirectPath(path) ==
  IF path[Len(path)] = "/" THEN rstrip_slash(path) ELSE path \o <<"/">>

RedirectMatches(rs, method, path) ==
  /\ path # Root
  /\ \E i \in 1..Len(rs) : RouteMatch(rs[i], method, RedirectPath(path)) # "NONE"

\* The router's decision: the first fully matching route, else the first
\* partially matching one, else a redirect, else not found.
RouterApp(rs, method, path) ==
  IF FullMatches(rs, method, path) # {}
    THEN [kind |-> "FULL", index |-> First(FullMatches(rs, method, path))]
  ELSE IF PartialMatches(rs, method, path) # {}
    THEN [kind |-> "PARTIAL", index |-> First(PartialMatches(rs, method, path))]
  ELSE IF RedirectMatches(rs, method, path)
    THEN [kind |-> "REDIRECT", index |-> 0]
  ELSE [kind |-> "NONE", index |-> 0]

\* json.dumps(content, separators=(",", ":")) of a dict of strings.
Quote(s) == "\"" \o s \o "\""

RECURSIVE json_items(_)
json_items(d) ==
  IF d = <<>> THEN ""
  ELSE Quote(d[1][1]) \o ":" \o Quote(d[1][2])
         \o (IF Len(d) > 1 THEN "," ELSE "") \o json_items(Tail(d))

json_dumps(d) == "{" \o json_items(d) \o "}"

\* ------------------------------------------------------------------------
\* Connections.

Idle ==
  [stage |-> "idle", method |-> "", path |-> <<>>, payload |-> "",
   endpoint |-> "", result |-> <<>>, status |-> 0, body |-> "", sent |-> 0]

\* The response is written to connection c.  Nothing has read the request
\* body: neither handler declares a parameter, and the framework's own
\* responses do not depend on it.
Responded(c, status, body) ==
  [conn[c] EXCEPT !.stage = "responded", !.payload = "", !.status = status,
                  !.body = body, !.sent = @ + 1]

Decision(c) == RouterApp(routes, conn[c].method, conn[c].path)

Init ==
  /\ routes = AppRoutes
  /\ conn = [c \in Conns |-> Idle]

\* The listener accepts a request on a free connection.
Accept(c, method, path, payload) ==
  /\ conn[c].stage = "idle"
  /\ conn' = [conn EXCEPT ![c] = [Idle EXCEPT !.stage = "accepted",
                 !.method = method, !.path = path, !.payload = payload]]
  /\ UNCHANGED routes

\* The request matches an application route: its handler is scheduled.
DispatchEndpoint(c) ==
  /\ conn[c].stage = "accepted"
  /\ Decision(c).kind = "FULL"
  /\ routes[Decision(c).index].api
  /\ conn' = [conn EXCEPT ![c].stage = "routed", ![c].payload = "",
                          ![c].endpoint = routes[Decision(c).index].endpoint]
  /\ UNCHANGED routes

\* The request matches a documentation route of the framework, which
\* answers 200 with its page.
DispatchBuiltin(c) ==
  /\ conn[c].stage = "accepted"
  /\ Decision(c).kind = "FULL"
  /\ ~routes[Decision(c).index].api
  /\ conn' = [conn EXCEPT ![c] =
                 Responded(c, 200, "<" \o routes[Decision(c).index].endpoint \o ">")]
  /\ UNCHANGED routes

\* Only the path matches: 405.
DispatchMethodNotAllowed(c) ==
  /\ conn[c].stage = "accepted"
  /\ Decision(c).kind = "PARTIAL"
  /\ conn' = [conn EXCEPT ![c] =
                 Responded(c, 405, json_dumps(<<<<"detail", "Method Not Allowed">>>>))]
  /\ UNCHANGED routes

\* The path matches a route once a trailing slash is added or removed: 307.
DispatchRedirect(c) ==
  /\ conn[c].stage = "accepted"
  /\ Decision(c).kind = "REDIRECT"
  /\ conn' = [conn EXCEPT ![c] = Responded(c, 307, "")]
  /\ UNCHANGED routes

\* Nothing matches: 404.
DispatchNotFound(c) ==
  /\ conn[c].stage = "accepted"
  /\ Decision(c).kind = "NONE"
  /\ conn' = [conn EXCEPT ![c] =
                 Responded(c, 404, json_dumps(<<<<"detail", "Not Found">>>>))]
  /\ UNCHANGED routes

\* Variants of RunEndpoint with a defect, each detected by one property below.
\* The return value is kept in one place shared by all requests.
RunEndpoint_shared(c) ==
  /\ conn[c].stage = "routed"
  /\ conn' = [conn EXCEPT ![c].stage = "returned",
                ![c].result =
                   IF \E d \in Conns : d # c /\ conn[d].stage = "returned"
                   THEN conn[CHOOSE d \in Conns : d # c /\ conn[d].stage = "returned"].result
                   ELSE CallEndpoint(conn[c].endpoint)]
  /\ UNCHANGED routes

\* The handler removes the last registered route as a side effect.
RunEndpoint_unregisters(c) ==
  /\ conn[c].stage = "routed"
  /\ conn' = [conn EXCEPT ![c].stage = "returned",
                          ![c].result = CallEndpoint(conn[c].endpoint)]
  /\ routes' = SubSeq(routes, 1, Len(routes) - 1)

\* The handler waits until no other handler is pending.
RunEndpoint_waits(c) ==
  /\ conn[c].stage = "routed"
  /\ \A d \in Conns : d # c => conn[d].stage # "routed"
  /\ conn' = [conn EXCEPT ![c].stage = "returned",
                          ![c].result = CallEndpoint(conn[c].endpoint)]
  /\ UNCHANGED routes

\* The handler runs and returns its dict.
RunEndpoint(c) ==
  /\ conn[c].stage = "routed"
  /\ conn' = [conn EXCEPT ![c].stage = "returned",
                          ![c].result = CallEndpoint(conn[c].endpoint)]
  /\ UNCHANGED routes

\* The returned dict is sent as a JSON response with the default status.
SendJSON(c) ==
  /\ conn[c].stage = "returned"
  /\ conn' = [conn EXCEPT ![c] = Responded(c, 200, json_dumps(conn[c].result))]
  /\ UNCHANGED routes

\* The exchange is over and the connection is free again.
Close(c) ==
  /\ conn[c].stage = "responded"
  /\ conn' = [conn EXCEPT ![c] = Idle]
  /\ UNCHANGED routes

\* The steps the server takes on its own for a request it has accepted.
Serve(c) ==
  \/ DispatchEndpoint(c)
  \/ DispatchBuiltin(c)
  \/ DispatchMethodNotAllowed(c)
  \/ DispatchRedirect(c)
  \/ DispatchNotFound(c)
  \/ RunEndpoint(c)
  \/ SendJSON(c)

\* One request for each way a request can be served.
LiveRequests ==
  { <<"GET", Root>>, <<"POST", Root>>, <<"DELETE", Root>>, <<"HEAD", <<"/", "docs">>>>,
    <<"GET", <<"/", "docs", "/">>>>, <<"POST", <<"/", "other">>>> }

LiveNext ==
  \/ \E c \in Conns, r \in LiveRequests : Accept(c, r[1], r[2], "")
  \/ \E c \in Conns : Serve(c)
  \/ \E c \in Conns : Close(c)

Next ==
  \/ \E c \in Conns, method \in Methods, path \in Paths, payload \in Payloads :
       Accept(c, method, path, payload)
  \/ \E c \in Conns : DispatchEndpoint(c)
  \/ \E c \in Conns : DispatchBuiltin(c)
  \/ \E c \in Conns : DispatchMethodNotAllowed(c)
  \/ \E c \in Conns : DispatchRedirect(c)
  \/ \E c \in Conns : DispatchNotFound(c)
  \/ \E c \in Conns : RunEndpoint(c)
  \/ \E c \in Conns : SendJSON(c)
  \/ \E c \in Conns : Close(c)

Spec == Init /\ [][Next]_vars

\* Every accepted request keeps being served: the server's event loop and
\* worker threads run each pending step.
LiveSpec == Init /\ [][LiveNext]_vars /\ \A c \in Conns : WF_vars(Serve(c))

\* ------------------------------------------------------------------------
\* Properties.

Is2xx(status) == status \in 200..299

\* The two hello payloads as they are sent (compact JSON text).
HelloGET == "{\"method\":\"GET\",\"message\":\"Hello from GET!\"}"

HelloPOST == "{\"method\":\"POST\",\"message\":\"Hello from POST!\"}"

Answered == {c \in Conns : conn[c].stage = "responded"}

\* The body is a JSON object whose "method" field is m.
MethodFieldIs(body, m) ==
  \E msg \in {"Hello from GET!", "Hello from POST!"} :
     body = json_dumps(<<<<"method", m>>, <<"message", msg>>>>)

\* The requests that are accepted and not yet dispatched, their bodies
\* still attached.
Pending == {c \in Conns : conn[c].stage = "accepted"}

\* C1: every GET request to "/", whatever its body, is handed to read_root
\* and answered with status 200 and the GET hello payload.
C1_GetRoot ==
  /\ \A c \in Pending :
        conn[c].method = "GET" /\ conn[c].path = Root
           => /\ Decision(c).kind = "FULL"
              /\ routes[Decision(c).index].endpoint = "read_root"
  /\ \A c \in Conns :
        conn[c].method = "GET" /\ conn[c].path = Root /\ conn[c].stage \notin {"accepted"}
           => conn[c].endpoint = "read_root"
  /\ \A c \in Answered :
        conn[c].method = "GET" /\ conn[c].path = Root
           => conn[c].status = 200 /\ conn[c].body = HelloGET

\* A GET of "/" has been answered and one with a malformed body is pending.
C1_Witness ==
  /\ \E c \in Answered : conn[c].method = "GET" /\ conn[c].path = Root
  /\ \E c \in Pending :
        conn[c].method = "GET" /\ conn[c].path = Root /\ conn[c].payload = "{bad"

\* C2: every POST request to "/" is answered with status 200 (not 201) and
\* the POST hello payload, whatever its body (empty or malformed).
C2_PostRoot ==
  /\ \A c \in Pending :
        conn[c].method = "POST" /\ conn[c].path = Root
           => /\ Decision(c).kind = "FULL"
              /\ routes[Decision(c).index].endpoint = "create_root"
  /\ \A c \in Conns :
        conn[c].method = "POST" /\ conn[c].path = Root /\ conn[c].stage \notin {"accepted"}
           => conn[c].endpoint = "create_root"
  /\ \A c \in Answered :
        conn[c].method = "POST" /\ conn[c].path = Root
           => conn[c].status = 200 /\ conn[c].body = HelloPOST

\* A POST of "/" has been answered and one with a malformed body is pending.
C2_Witness ==
  /\ \E c \in Answered : conn[c].method = "POST" /\ conn[c].path = Root
  /\ \E c \in Pending :
        conn[c].method = "POST" /\ conn[c].path = Root /\ conn[c].payload = "{bad"

\* C3: a request to "/" with a method other than GET or POST gets a non-2xx
\* status and neither hello payload, and no handler is invoked for it.
C3_OtherMethodOnRoot ==
  \A c \in Answered :
     conn[c].path = Root /\ conn[c].method \notin {"GET", "POST"}
        => /\ ~Is2xx(conn[c].status)
           /\ conn[c].body \notin {HelloGET, HelloPOST}
           /\ conn[c].endpoint = ""
           /\ conn[c].result = <<>>

C3_Witness ==
  /\ \E c \in Answered : conn[c].path = Root /\ conn[c].method = "HEAD"
  /\ \E c \in Answered : conn[c].path = Root /\ conn[c].method = "DELETE"

\* C4 as stated: a request to any path other than "/" gets a non-2xx status
\* and neither hello payload, whatever its method.
C4_AnyOtherPath ==
  \A c \in Answered :
     conn[c].path # Root
        => ~Is2xx(conn[c].status) /\ conn[c].body \notin {HelloGET, HelloPOST}

\* The path without the line feed that may end it.
StripLF(path) ==
  IF path # <<>> /\ path[Len(path)] = "\n"
  THEN SubSeq(path, 1, Len(path) - 1) ELSE path

\* The paths of the documentation routes.
DocPaths ==
  {<<"/", "docs">>, <<"/", "openapi.json">>, <<"/", "redoc">>,
   <<"/", "docs", "/", "oauth2-redirect">>}

\* C4 amended: a request to a path that no registered route's pattern
\* matches gets a non-2xx status and neither hello payload, whatever its
\* method.  The patterns are those of "/" and of the documentation routes,
\* and each also matches its path followed by one line feed.
C4_UnroutedPath ==
  \A c \in Answered :
     StripLF(conn[c].path) \notin {Root} \cup DocPaths
        => ~Is2xx(conn[c].status) /\ conn[c].body \notin {HelloGET, HelloPOST}

C4_Witness ==
  /\ \E c \in Answered :
        conn[c].path = <<"/", "other">> /\ conn[c].method = "GET" /\ conn[c].status = 404
  /\ \E c \in Answered :
        conn[c].path = <<"/", "docs", "/">> /\ conn[c].method = "POST" /\ conn[c].status = 307

\* C5: two requests with the same method and path get the same status and
\* the same body, whatever was served before them.
C5_Stable ==
  \A c, d \in Answered :
     conn[c].method = conn[d].method /\ conn[c].path = conn[d].path
        => conn[c].status = conn[d].status /\ conn[c].body = conn[d].body

C5_Witness ==
  \E c, d \in Answered :
     /\ c # d
     /\ conn[c].method = "POST" /\ conn[d].method = "POST"
     /\ conn[c].path = Root /\ conn[d].path = Root

\* The response a request gets when it is the only request ever served:
\* the steps of Serve run back to back on the route table of Init.
AloneResponse(method, path) ==
  LET d == RouterApp(AppRoutes, method, path)
  IN  IF d.kind = "FULL" /\ AppRoutes[d.index].api
        THEN [status |-> 200,
              body |-> json_dumps(CallEndpoint(AppRoutes[d.index].endpoint))]
      ELSE IF d.kind = "FULL"
        THEN [status |-> 200, body |-> "<" \o AppRoutes[d.index].endpoint \o ">"]
      ELSE IF d.kind = "PARTIAL"
        THEN [status |-> 405, body |-> "{\"detail\":\"Method Not Allowed\"}"]
      ELSE IF d.kind = "REDIRECT"
        THEN [status |-> 307, body |-> ""]
      ELSE [status |-> 404, body |-> "{\"detail\":\"Not Found\"}"]

\* C6: with requests in flight at once, each response is the one the
\* request would get if it were served alone.
C6_Isolated ==
  \A c \in Answered :
     [status |-> conn[c].status, body |-> conn[c].body]
        = AloneResponse(conn[c].method, conn[c].path)

\* A GET answered by read_root while a POST is between its handler's return
\* and its response.
C6_Witness ==
  \E c, d \in Conns :
     /\ conn[c].stage = "responded" /\ conn[c].endpoint = "read_root"
     /\ conn[d].stage = "returned" /\ conn[d].endpoint = "create_root"

\* C7: handling a request changes neither the route table nor the two
\* payloads, and a handler that is called returns its payload (it does not
\* raise, so no response is a 500).
C7_Frame ==
  [][ /\ routes' = routes
      /\ read_root' = read_root
      /\ create_root' = create_root
      /\ \A c \in Conns :
            /\ conn'[c].status # 500
            /\ conn[c].stage = "routed" /\ conn'[c].stage # "routed"
                 => /\ conn'[c].stage = "returned"
                    /\ conn'[c].result \in {read_root, create_root} ]_vars

C7_Witness ==
  /\ routes = AppRoutes
  /\ \E c \in Answered : conn[c].endpoint = "create_root"
  /\ \E c \in Answered : conn[c].status = 405

C9_Every2xx ==
  \A c \in Answered :
     Is2xx(conn[c].status) => MethodFieldIs(conn[c].body, conn[c].method)

\* C9 amended: in every 2xx response to a request that read_root or
\* create_root served, the body's "method" field equals the request's
\* method; a GET never gets the POST payload nor a POST the GET payload.
C9_HandlerResponses ==
  \A c \in Answered :
     /\ Is2xx(conn[c].status) /\ conn[c].endpoint \in {"read_root", "create_root"}
          => MethodFieldIs(conn[c].body, conn[c].method)
     /\ conn[c].method = "GET" => conn[c].body # HelloPOST
     /\ conn[c].method = "POST" => conn[c].body # HelloGET

C9_Witness ==
  /\ \E c \in Answered : conn[c].method = "GET" /\ conn[c].body = HelloGET
  /\ \E c \in Answered : conn[c].method = "POST" /\ conn[c].body = HelloPOST

\* The routes that the decorators of the module registered.
TwoApplicationRoutes ==
  /\ Cardinality({j \in 1..Len(routes) : routes[j].api}) = 2
  /\ \A j \in 1..Len(routes) : routes[j].api =>
        \/ routes[j].path = Root /\ routes[j].methods = {"GET"}
             /\ routes[j].endpoint = "read_root"
        \/ routes[j].path = Root /\ routes[j].methods = {"POST"}
             /\ routes[j].endpoint = "create_root"
  /\ \E j \in 1..Len(routes) : routes[j].api /\ routes[j].endpoint = "read_root"
  /\ \E j \in 1..Len(routes) : routes[j].api /\ routes[j].endpoint = "create_root"

\* C10 as stated: exactly two application routes, (GET, "/") and
\* (POST, "/"), each with one handler, and a response is 2xx if and only if
\* the request's (method, path) is one of the two.
C10_OnlyTwoPairs ==
  /\ TwoApplicationRoutes
  /\ \A c \in Answered :
        Is2xx(conn[c].status)
           <=> conn[c].path = Root /\ conn[c].method \in {"GET", "POST"}

\* C10 amended: exactly two application routes, (GET, "/") and (POST, "/"),
\* each with one handler; a request whose (method, path) is one of the two
\* gets a 2xx response, and every other 2xx response is either to a GET or
\* POST of "/" followed by a line feed, or to a GET or HEAD that a
\* documentation route of the framework serves.
C10_TwoRoutes ==
  /\ TwoApplicationRoutes
  /\ \A c \in Answered :
        Is2xx(conn[c].status)
           <=> \/ StripLF(conn[c].path) = Root
                  /\ conn[c].method \in {"GET", "POST"}
               \/ StripLF(conn[c].path) \in DocPaths
                  /\ conn[c].method \in {"GET", "HEAD"}

C10_Witness ==
  /\ \E c \in Answered : conn[c].path = Root /\ conn[c].method = "GET" /\ conn[c].status = 200
  /\ \E c \in Answered : conn[c].path = <<"/", "docs">> /\ conn[c].method = "HEAD"
                           /\ conn[c].status = 200

====
